---- MODULE Spec2Model ----
(***************************************************************************)
(* One WebSocket connection of the MythOS design server (server.ts): the   *)
(* per-connection SocketState, the message / close / error / heartbeat     *)
(* handlers, the job orchestrators runJob and runModificationJob, and the  *)
(* validateAndRepair loop.  Every action is one run-to-completion segment  *)
(* of the Node event loop: a handler or the continuation of an async       *)
(* routine from one await to the next.                                     *)
(***************************************************************************)
EXTENDS Integers, Sequences, FiniteSets, TLC

\* ------------------------------------------------------------------ bounds
\* number of jobs one connection may dispatch in a modelled run
MaxJobs == 2

\* ------------------------------------------------------- program constants
\* validateAndRepair: const maxAttempts = 3
maxAttemptsPlusOne == 3 + 1
maxAttempts == 3

Jobs == 1..MaxJobs

VARIABLES
  busy,        \* SocketState.busy
  canceled,    \* SocketState.canceled
  jobName,     \* SocketState.jobName (the stage the heartbeat reports)
  lastJobId,   \* SocketState.lastJobId
  heartbeat,   \* TRUE while the setInterval timer of the connection is armed
  readyState,  \* ws.readyState: "OPEN", or "CLOSED" for CLOSING and CLOSED
  pc,          \* pc[j]: where runJob / runModificationJob of job j stands:
               \* "none", "gen" (awaiting translate / modify), "engine"
               \* (awaiting validateAndRepair), "returned", "retired"
  kind,        \* kind[j]: "prompt" (runJob) or "modify" (runModificationJob)
  eng,         \* eng[j]: the validateAndRepair invocation of job j: pc "none",
               \* "repair" (awaiting repair), "sleep", "returned"; the loop
               \* variables attempt and current
  late,        \* history: external calls <<job, attempt>> (attempt 0: translate /
               \* modify) whose guard timed out and that have not settled yet
  out,         \* the payloads handed to send() by the last step, in order
  jobLog,      \* history: jobLog[j] = payloads handed to send() by job j's routines
  nValidate,   \* history: nValidate[j] = calls of json_is_schema_valid in job j
  nRepair,     \* history: nRepair[j] = calls of translator.repair in job j
  hit          \* history: jobs during which canceled was set (cancel, close, error)

vars == <<busy, canceled, jobName, lastJobId, heartbeat, readyState, pc, kind,
          eng, late, out, jobLog, nValidate, nRepair, hit>>

state == <<busy, canceled, jobName, lastJobId>>
hist == <<nValidate, nRepair, hit>>

\* ------------------------------------------------------------------ values
\* A candidate object is identified by the call that produced it (0: the
\* translate / modify call, k: the repair call of attempt k) and carries the
\* answer the schema validator gives for it.
Obj(k, v) == [by |-> k, valid |-> v]
NoData == [by |-> -1, valid |-> FALSE]

\* translator.json_is_schema_valid(current).success
json_is_schema_validAny(o) == TRUE
json_is_schema_valid(o) == o.valid

\* ServerEvent payloads.  n is the number interpolated into the message text
\* (the attempt), 0 when the text has none; wire is set by send().
Ev(e, st, m, n, d, okv, mod) ==
  [event |-> e, stage |-> st, message |-> m, n |-> n, data |-> d, ok |-> okv,
   is_modify |-> mod, wire |-> FALSE]
EvStatus(st, m, n) == Ev("status", st, m, n, NoData, FALSE, FALSE)
EvError(m, n) == Ev("error", "-", m, n, NoData, FALSE, FALSE)
EvDone(okv) == Ev("done", "-", "-", 0, NoData, okv, FALSE)
EvResult(d, mod) == Ev("result", "-", "-", 0, d, FALSE, mod)
EvPartial(d, m, n, mod) == Ev("result_partial", "-", m, n, d, FALSE, mod)
EvPong == Ev("pong", "-", "-", 0, NoData, FALSE, FALSE)

\* send(ws, payload): written to the socket only when ws.readyState is OPEN
send(evs) == [i \in 1..Len(evs) |-> [evs[i] EXCEPT !.wire = (readyState = "OPEN")]]

\* sendStatus leaves state.jobName at the stage of the last status it sent
StageAfter(evs, cur) ==
  LET idx == {i \in 1..Len(evs) : evs[i].event = "status"}
  IN IF idx = {} THEN cur
     ELSE evs[CHOOSE i \in idx : \A k \in idx : k <= i].stage

\* makeStaleChecker(state, id)(), read at a moment where state.canceled = c
\* and state.lastJobId = last
makeStaleCheckerNoId(c, last, id) == c
makeStaleChecker(c, last, id) == c \/ id # last
isStale(id) == makeStaleChecker(canceled, lastJobId, id)

\* sendError(ws, message): an error payload followed by done{ok:false}
sendError(m) == <<EvError(m, 0), EvDone(FALSE)>>

\* the finally block of runJob / runModificationJob
finallyBusyKept == [busy |-> busy, jobName |-> "idle"]
finallyState == [busy |-> FALSE, jobName |-> "idle"]
finallyEventsOkFalse == <<EvDone(FALSE)>>
finallyEvents == <<EvDone(~canceled)>>

NoEng == [pc |-> "none", attempt |-> 0, current |-> NoData]

Init ==
  /\ busy = FALSE /\ canceled = FALSE /\ jobName = "idle" /\ lastJobId = 0
  /\ heartbeat = TRUE /\ readyState = "OPEN"
  /\ pc = [j \in Jobs |-> "none"]
  /\ kind = [j \in Jobs |-> "none"]
  /\ eng = [j \in Jobs |-> NoEng]
  /\ late = {}
  /\ out = <<>>
  /\ jobLog = [j \in Jobs |-> <<>>]
  /\ nValidate = [j \in Jobs |-> 0]
  /\ nRepair = [j \in Jobs |-> 0]
  /\ hit = {}

\* ------------------------------------------------- inbound message handler
\* The raw frames a client can send.  type "notjson" stands for a frame on
\* which JSON.parse throws, "other" for a parsed message of an unknown type;
\* prompt "<absent>" for a message without a prompt field.
Prompts == {"<absent>", "  ", "a foggy coastal island"}
Messages ==
  [type : {"prompt"}, prompt : Prompts, originalJson : {FALSE}]
    \cup [type : {"modify"}, prompt : Prompts, originalJson : BOOLEAN]
    \cup [type : {"cancel", "ping", "other", "notjson"}, prompt : {"-"},
          originalJson : {FALSE}]

\* (msg.prompt ?? "").trim()
trim(p) == IF p \in {"<absent>", "  "} THEN "" ELSE p

\* jobs whose orchestrator is between its busy-mark and its finally block
Running == {j \in Jobs : pc[j] \in {"gen", "engine"}}

\* The histories (jobLog, nValidate, nRepair, hit, late) of a job are kept until
\* the first dispatch after its orchestrator has returned: pc "retired".
\* What a routine of a retired job still emits shows in out only.
Over(i) == pc[i] \in {"returned", "retired"}
\* ... and the frame of a validateAndRepair invocation that has returned too
Dead(i) == Over(i) /\ eng[i].pc \in {"none", "returned"}
Keep(f, j, new, empty) ==
  [i \in Jobs |-> IF i = j THEN new ELSE IF Over(i) THEN empty ELSE f[i]]

\* the synchronous prefix of runJob / runModificationJob(ws, state, j, ...),
\* called from the message handler right after ++state.lastJobId
StartJob(j, k) ==
  /\ lastJobId' = j
  /\ kind' = [i \in Jobs |-> IF i = j THEN k ELSE IF Dead(i) THEN "none" ELSE kind[i]]
  /\ canceled' = canceled
  /\ eng' = [i \in Jobs |-> IF i # j /\ Dead(i) THEN NoEng ELSE eng[i]]
  /\ nValidate' = Keep(nValidate, j, 0, 0)
  /\ nRepair' = Keep(nRepair, j, 0, 0)
  /\ hit' = {i \in hit : i # j /\ ~Over(i)}
  /\ IF makeStaleChecker(canceled, j, j)
     THEN /\ busy' = finallyState.busy
          /\ jobName' = finallyState.jobName
          /\ out' = send(finallyEvents)
          /\ jobLog' = Keep(jobLog, j, send(finallyEvents), <<>>)
          /\ pc' = Keep(pc, j, "returned", "retired")
     ELSE LET st == IF k = "modify" THEN "modifying" ELSE "translating"
              evs == <<EvStatus("received", "Prompt received.", 0),
                       EvStatus(st, "Starting ...", 0)>>
          IN /\ busy' = TRUE
             /\ jobName' = st
             /\ out' = send(evs)
             /\ jobLog' = Keep(jobLog, j, send(evs), <<>>)
             /\ pc' = Keep(pc, j, "gen", "retired")

\* which branch of the prompt / modify handler a message takes
promptBranchNoBusyCheck(m) ==
  IF trim(m.prompt) = "" THEN "missing_prompt"
  ELSE IF m.type = "modify" /\ ~m.originalJson THEN "missing_json"
  ELSE "start"
promptBranch(m) ==
  IF trim(m.prompt) = "" THEN "missing_prompt"
  ELSE IF busy THEN "busy"
  ELSE IF m.type = "modify" /\ ~m.originalJson THEN "missing_json"
  ELSE "start"

\* ws.on("message"): JSON.parse throws
OnNotJson(m) ==
  /\ readyState = "OPEN" /\ m.type = "notjson"
  /\ out' = send(<<EvError("Invalid JSON in message from client", 0)>>)
  /\ UNCHANGED <<state, heartbeat, readyState, pc, kind, eng, late, jobLog, hist>>

\* ws.on("message"): msg.type === "ping"
OnPingWhenIdle(m) ==
  /\ readyState = "OPEN" /\ m.type = "ping" /\ ~busy
  /\ out' = send(<<EvPong>>)
  /\ UNCHANGED <<state, heartbeat, readyState, pc, kind, eng, late, jobLog, hist>>
OnPing(m) ==
  /\ readyState = "OPEN" /\ m.type = "ping"
  /\ out' = send(<<EvPong>>)
  /\ UNCHANGED <<state, heartbeat, readyState, pc, kind, eng, late, jobLog, hist>>

\* ws.on("message"): msg.type === "cancel"
OnCancelClearsBusy(m) ==
  /\ readyState = "OPEN" /\ m.type = "cancel"
  /\ IF busy
     THEN /\ canceled' = TRUE
          /\ hit' = hit \cup Running
          /\ out' = send(<<EvStatus("idle", "Job canceled by client.", 0)>>)
     ELSE /\ canceled' = canceled
          /\ hit' = hit
          /\ out' = send(<<EvStatus("idle", "No active job to cancel.", 0)>>)
  /\ jobName' = "idle"
  /\ busy' = FALSE
  /\ UNCHANGED <<lastJobId, heartbeat, readyState, pc, kind, eng, late,
                 jobLog, nValidate, nRepair>>
OnCancel(m) ==
  /\ readyState = "OPEN" /\ m.type = "cancel"
  /\ IF busy
     THEN /\ canceled' = TRUE
          /\ hit' = hit \cup Running
          /\ out' = send(<<EvStatus("idle", "Job canceled by client.", 0)>>)
     ELSE /\ canceled' = canceled
          /\ hit' = hit
          /\ out' = send(<<EvStatus("idle", "No active job to cancel.", 0)>>)
  /\ jobName' = "idle"
  /\ UNCHANGED <<busy, lastJobId, heartbeat, readyState, pc, kind, eng, late,
                 jobLog, nValidate, nRepair>>

\* what the prompt / modify handler sends when it rejects a message
RejectionErrorOnly(br) ==
  CASE br = "missing_prompt" -> <<EvError("Missing 'prompt'.", 0)>>
    [] br = "busy" -> <<EvError("Job already in progress on this connection.", 0)>>
    [] br = "missing_json" -> <<EvError("Missing 'originalJson'.", 0)>>
Rejection(br) ==
  CASE br = "missing_prompt" -> <<EvError("Missing 'prompt'.", 0), EvDone(FALSE)>>
    [] br = "busy" -> <<EvError("Job already in progress on this connection.", 0)>>
    [] br = "missing_json" -> <<EvError("Missing 'originalJson'.", 0), EvDone(FALSE)>>

\* const jobId = ++state.lastJobId
nextJobIdSkipping == lastJobId + 2
nextJobId == lastJobId + 1

\* ws.on("message"): msg.type === "prompt" and msg.type === "modify"
OnSubmit(m) ==
  /\ readyState = "OPEN" /\ m.type \in {"prompt", "modify"}
  /\ LET br == promptBranch(m)
     IN IF br = "start"
        THEN /\ lastJobId < MaxJobs
             /\ StartJob(nextJobId, m.type)
        ELSE /\ out' = send(Rejection(br))
             /\ UNCHANGED <<state, pc, kind, eng, jobLog, hist>>
  /\ late' = IF promptBranch(m) = "start" THEN {c \in late : ~Over(c[1])} ELSE late
  /\ UNCHANGED <<heartbeat, readyState>>

\* ws.on("message"): fallback for unknown message types
OnUnknownWithDone(m) ==
  /\ readyState = "OPEN" /\ m.type = "other"
  /\ out' = send(<<EvError("Unknown message type.", 0), EvDone(FALSE)>>)
  /\ UNCHANGED <<state, heartbeat, readyState, pc, kind, eng, late, jobLog, hist>>
OnUnknown(m) ==
  /\ readyState = "OPEN" /\ m.type = "other"
  /\ out' = send(<<EvError("Unknown message type.", 0)>>)
  /\ UNCHANGED <<state, heartbeat, readyState, pc, kind, eng, late, jobLog, hist>>

\* the setInterval callback armed at connection time
HeartbeatWhenIdle ==
  /\ heartbeat /\ readyState = "OPEN" /\ ~busy
  /\ out' = send(<<EvStatus(jobName, "...", 0)>>)
  /\ UNCHANGED <<state, heartbeat, readyState, pc, kind, eng, late, jobLog, hist>>
Heartbeat ==
  /\ heartbeat /\ readyState = "OPEN"
  /\ out' = send(<<EvStatus(jobName, "...", 0)>>)
  /\ UNCHANGED <<state, heartbeat, readyState, pc, kind, eng, late, jobLog, hist>>

\* ws.on("close") and ws.on("error"): the two handlers have the same body.
\* The socket has left OPEN when the first of them runs; the second one, if
\* any, finds the timer cleared and canceled set and changes nothing.
OnTeardownKeepsCanceled(h) ==
  /\ h \in {"close", "error"}
  /\ readyState = "OPEN"
  /\ readyState' = "CLOSED"
  /\ heartbeat' = FALSE
  /\ out' = <<>>
  /\ UNCHANGED <<busy, canceled, jobName, lastJobId, pc, kind, eng, late, jobLog,
                 nValidate, nRepair, hit>>
OnTeardown(h) ==
  /\ h \in {"close", "error"}
  /\ readyState = "OPEN"
  /\ readyState' = "CLOSED"
  /\ heartbeat' = FALSE
  /\ canceled' = TRUE
  /\ hit' = hit \cup Running
  /\ out' = <<>>
  /\ UNCHANGED <<busy, jobName, lastJobId, pc, kind, eng, late, jobLog,
                 nValidate, nRepair>>

\* ------------------------------------------------------ validateAndRepair
\* One pass of the for loop body from its top to the first of: a return, a
\* break (followed by the return after the loop), or the await of the repair
\* call.  ret is "success", "failure" or "await".
LoopPassAlwaysRepair(id, attempt, current, mod) ==
  LET v == EvStatus("validating", "Validating schema (attempt n)", attempt)
  IN IF isStale(id)
     THEN [evs |-> <<>>, ret |-> "failure", nval |-> 0, nrep |-> 0]
     ELSE IF attempt = maxAttempts
     THEN IF json_is_schema_valid(current)
          THEN [evs |-> <<v>>, ret |-> "success", nval |-> 1, nrep |-> 0]
          ELSE [evs |-> <<v, EvPartial(current, "Max repair attempts reached.", 0, mod)>>,
                ret |-> "failure", nval |-> 1, nrep |-> 0]
     ELSE [evs |-> <<v, EvStatus("repair", "Repairing (n/3)", attempt)>>,
           ret |-> "await", nval |-> 1, nrep |-> 1]
LoopPassNoStaleCheck(id, attempt, current, mod) ==
  LET v == EvStatus("validating", "Validating schema (attempt n)", attempt)
  IN IF json_is_schema_valid(current)
     THEN [evs |-> <<v>>, ret |-> "success", nval |-> 1, nrep |-> 0]
     ELSE IF attempt = maxAttempts
     THEN [evs |-> <<v, EvPartial(current, "Max repair attempts reached.", 0, mod)>>,
           ret |-> "failure", nval |-> 1, nrep |-> 0]
     ELSE [evs |-> <<v, EvStatus("repair", "Repairing (n/3)", attempt)>>,
           ret |-> "await", nval |-> 1, nrep |-> 1]
LoopPass(id, attempt, current, mod) ==
  LET v == EvStatus("validating", "Validating schema (attempt n)", attempt)
  IN IF isStale(id)
     THEN [evs |-> <<>>, ret |-> "failure", nval |-> 0, nrep |-> 0]
     ELSE IF json_is_schema_valid(current)
     THEN [evs |-> <<v>>, ret |-> "success", nval |-> 1, nrep |-> 0]
     ELSE IF attempt = maxAttempts
     THEN [evs |-> <<v, EvPartial(current, "Max repair attempts reached.", 0, mod)>>,
           ret |-> "failure", nval |-> 1, nrep |-> 0]
     ELSE [evs |-> <<v, EvStatus("repair", "Repairing (n/3)", attempt)>>,
           ret |-> "await", nval |-> 1, nrep |-> 1]

\* What follows a segment of validateAndRepair of job j that emitted evs,
\* made nv validations and nr repair calls and ended with ret ("success" /
\* "failure": the routine returned; otherwise it is suspended and e is its
\* new state).  When runJob is still awaiting the engine, its continuation
\* (the result event, the finally block) runs in the same turn of the event
\* loop; when the 180 s guard around the engine has already rejected, nobody
\* consumes the return value.
EngineSegment(j, evs, ret, data, e, nv, nr) ==
  LET mod == kind[j] = "modify"
      returned == ret \in {"success", "failure"}
      awaited == pc[j] = "engine"
      retired == pc[j] = "retired"
      all == IF returned /\ awaited
             THEN evs \o (IF ret = "success" THEN <<EvResult(data, mod)>> ELSE <<>>)
                      \o finallyEvents
             ELSE evs
  IN /\ out' = send(all)
     /\ eng' = [eng EXCEPT ![j] = IF ~returned THEN e
                                  ELSE IF retired THEN NoEng
                                  ELSE [e EXCEPT !.pc = "returned"]]
     /\ kind' = [kind EXCEPT ![j] = IF returned /\ retired THEN "none" ELSE @]
     /\ IF retired
        THEN UNCHANGED <<jobLog, nValidate, nRepair>>
        ELSE /\ jobLog' = [jobLog EXCEPT ![j] = @ \o send(all)]
             /\ nValidate' = [nValidate EXCEPT ![j] = @ + nv]
             /\ nRepair' = [nRepair EXCEPT ![j] = @ + nr]
     /\ IF returned /\ awaited
        THEN /\ busy' = finallyState.busy
             /\ jobName' = finallyState.jobName
             /\ pc' = [pc EXCEPT ![j] = "returned"]
        ELSE /\ busy' = busy
             /\ jobName' = StageAfter(evs, jobName)
             /\ pc' = pc
     /\ UNCHANGED <<canceled, lastJobId, heartbeat, readyState, hit>>

\* results an external call (translate, modify, repair) can settle with
CallResults == {"valid", "invalid", "failure", "throw"}

\* the repair call of the current attempt settles before its guard fires
RepairSettles(j, r) ==
  /\ eng[j].pc = "repair"
  /\ LET a == eng[j].attempt
         cur == eng[j].current
         mod == kind[j] = "modify"
     IN CASE r \in {"valid", "invalid"} ->
               \* current = repair_result.data; await sleep(500)
               EngineSegment(j, <<>>, "sleep", NoData,
                             [pc |-> "sleep", attempt |-> a,
                              current |-> Obj(a, r = "valid")], 0, 0)
          [] r = "failure" ->
               EngineSegment(j, <<EvPartial(cur, "Repair n failed", a, mod)>>,
                             "failure", NoData, eng[j], 0, 0)
          [] r = "throw" ->
               EngineSegment(j, <<EvError("Repair n threw: <transport error>", a)>>,
                             "failure", NoData, eng[j], 0, 0)
  /\ UNCHANGED late

\* withTimeout around the repair call rejects first.  Timers of equal delay
\* fire in creation order and the guard around the whole engine is created in
\* the same turn as the first repair's: while runJob still awaits the engine,
\* only the first attempt's repair guard can fire before the engine's.
RepairTimeout(j) ==
  /\ eng[j].pc = "repair"
  /\ eng[j].attempt = 1 \/ pc[j] # "engine"
  /\ EngineSegment(j, <<EvError("Repair n threw: Operation timed out", eng[j].attempt)>>,
                   "failure", NoData, eng[j], 0, 0)
  /\ late' = late \cup {<<j, eng[j].attempt>>}

\* sleep(500) is over: attempt++ and the next pass of the loop
SleepDoneNoIncrement(j) ==
  /\ eng[j].pc = "sleep"
  /\ LET a == eng[j].attempt
         cur == eng[j].current
         p == LoopPass(j, a, cur, kind[j] = "modify")
     IN EngineSegment(j, p.evs, p.ret, cur,
                      [pc |-> "repair", attempt |-> a, current |-> cur],
                      p.nval, p.nrep)
  /\ UNCHANGED late
SleepDone(j) ==
  /\ eng[j].pc = "sleep"
  /\ LET a == eng[j].attempt + 1
         cur == eng[j].current
         p == LoopPass(j, a, cur, kind[j] = "modify")
     IN EngineSegment(j, p.evs, p.ret, cur,
                      [pc |-> "repair", attempt |-> a, current |-> cur],
                      p.nval, p.nrep)
  /\ UNCHANGED late

\* ------------------------------------------- runJob / runModificationJob
\* the catch + finally of the orchestrator, with the message of the error
FailNoFinally(j, m) ==
  /\ busy' = busy
  /\ jobName' = jobName
  /\ out' = send(sendError(m))
  /\ jobLog' = [jobLog EXCEPT ![j] = @ \o send(sendError(m))]
  /\ pc' = [pc EXCEPT ![j] = "returned"]
  /\ UNCHANGED <<canceled, lastJobId, heartbeat, readyState, kind, hit>>
Fail(j, m) ==
  LET all == sendError(m) \o finallyEvents
  IN /\ busy' = finallyState.busy
     /\ jobName' = finallyState.jobName
     /\ out' = send(all)
     /\ jobLog' = [jobLog EXCEPT ![j] = @ \o send(all)]
     /\ pc' = [pc EXCEPT ![j] = "returned"]
     /\ UNCHANGED <<canceled, lastJobId, heartbeat, readyState, kind, hit>>

Prefix(j) == IF kind[j] = "modify" THEN "Modification failed: " ELSE "Translation failed: "

\* translate / modify settles before its guard fires
GenSettles(j, r) ==
  /\ pc[j] = "gen"
  /\ IF r = "throw"
     THEN /\ Fail(j, Prefix(j) \o "<transport error>")
          /\ UNCHANGED <<eng, nValidate, nRepair>>
     ELSE IF isStale(j)
     THEN \* return; finally
          /\ busy' = finallyState.busy
          /\ jobName' = finallyState.jobName
          /\ out' = send(finallyEvents)
          /\ jobLog' = [jobLog EXCEPT ![j] = @ \o send(finallyEvents)]
          /\ pc' = [pc EXCEPT ![j] = "returned"]
          /\ UNCHANGED <<canceled, lastJobId, heartbeat, readyState, kind, hit,
                         eng, nValidate, nRepair>>
     ELSE IF r = "failure"
     THEN \* sendError(ws, translation_result.message); return; finally
          /\ Fail(j, "<could not produce JSON>")
          /\ UNCHANGED <<eng, nValidate, nRepair>>
     ELSE \* validateAndRepair runs to its first await or return
          LET cur == Obj(0, r = "valid")
              p == LoopPass(j, 1, cur, kind[j] = "modify")
              all == p.evs \o (IF p.ret = "success"
                               THEN <<EvResult(cur, kind[j] = "modify")>> ELSE <<>>)
                           \o (IF p.ret = "await" THEN <<>> ELSE finallyEvents)
          IN /\ nValidate' = [nValidate EXCEPT ![j] = @ + p.nval]
             /\ nRepair' = [nRepair EXCEPT ![j] = @ + p.nrep]
             /\ out' = send(all)
             /\ jobLog' = [jobLog EXCEPT ![j] = @ \o send(all)]
             /\ IF p.ret = "await"
                THEN /\ eng' = [eng EXCEPT ![j] = [pc |-> "repair", attempt |-> 1,
                                                   current |-> cur]]
                     /\ pc' = [pc EXCEPT ![j] = "engine"]
                     /\ busy' = busy
                     /\ jobName' = StageAfter(p.evs, jobName)
                ELSE /\ eng' = [eng EXCEPT ![j] = [pc |-> "returned", attempt |-> 1,
                                                   current |-> cur]]
                     /\ pc' = [pc EXCEPT ![j] = "returned"]
                     /\ busy' = finallyState.busy
                     /\ jobName' = finallyState.jobName
             /\ UNCHANGED <<canceled, lastJobId, heartbeat, readyState, kind, hit>>
  /\ UNCHANGED late

\* withTimeout around translate / modify rejects first
GenTimeout(j) ==
  /\ pc[j] = "gen"
  /\ Fail(j, Prefix(j) \o "Operation timed out")
  /\ late' = late \cup {<<j, 0>>}
  /\ UNCHANGED <<eng, nValidate, nRepair>>

\* withTimeout around validateAndRepair rejects first: the engine is past its
\* first repair call (see RepairTimeout) and keeps running, unawaited
EngineTimeout(j) ==
  /\ pc[j] = "engine"
  /\ eng[j].pc = "sleep" \/ (eng[j].pc = "repair" /\ eng[j].attempt >= 2)
  /\ Fail(j, "Operation timed out")
  /\ UNCHANGED <<eng, late, nValidate, nRepair>>

\* an external call abandoned by its guard settles: Promise.race has already
\* rejected, its value is dropped
LateSettlesProcessed(c) ==
  /\ c \in late
  /\ late' = late \ {c}
  /\ out' = send(<<EvResult(Obj(c[2], TRUE), FALSE)>>)
  /\ UNCHANGED <<state, heartbeat, readyState, pc, kind, eng, jobLog, hist>>
LateSettles(c) ==
  /\ c \in late
  /\ late' = late \ {c}
  /\ out' = <<>>
  /\ UNCHANGED <<state, heartbeat, readyState, pc, kind, eng, jobLog, hist>>

\* ---------------------------------------------------------- specification
Next ==
  \/ \E m \in Messages : OnNotJson(m)
  \/ \E m \in Messages : OnPing(m)
  \/ \E m \in Messages : OnCancel(m)
  \/ \E m \in Messages : OnSubmit(m)
  \/ \E m \in Messages : OnUnknown(m)
  \/ Heartbeat
  \/ \E h \in {"close", "error"} : OnTeardown(h)
  \/ \E j \in Jobs, r \in CallResults : GenSettles(j, r)
  \/ \E j \in Jobs : GenTimeout(j)
  \/ \E j \in Jobs : EngineTimeout(j)
  \/ \E j \in Jobs, r \in CallResults : RepairSettles(j, r)
  \/ \E j \in Jobs : RepairTimeout(j)
  \/ \E j \in Jobs : SleepDone(j)
  \/ \E c \in late : LateSettles(c)

Spec == Init /\ [][Next]_vars

\* Every external call settles or has its guard fire, and every timer fires:
\* a routine of job j that is suspended is resumed.
Resume(j) ==
  \/ \E r \in CallResults : GenSettles(j, r)
  \/ GenTimeout(j)
  \/ EngineTimeout(j)
  \/ \E r \in CallResults : RepairSettles(j, r)
  \/ RepairTimeout(j)
  \/ SleepDone(j)

FairSpec == Spec /\ \A j \in Jobs : WF_vars(Resume(j))

\* ------------------------------------------------------------ observations
Count(log, e) == Cardinality({i \in 1..Len(log) : log[i].event = e})
\* the payloads job j handed to send() in the step just taken
Fresh(j) == {i \in 1..Len(jobLog'[j]) : i > Len(jobLog[j])}
TimedOut(j) ==
  \E i \in 1..Len(jobLog[j]) :
     /\ jobLog[j][i].event = "error"
     /\ jobLog[j][i].message \in {"Operation timed out",
                                  "Translation failed: Operation timed out",
                                  "Modification failed: Operation timed out",
                                  "Repair n threw: Operation timed out"}

\* C1: every dispatched job, whatever its outcome, emits exactly one done
\* event: never zero and never two.
C1_ExactlyOneDone ==
  \A j \in Jobs : pc[j] = "returned" => Count(jobLog[j], "done") = 1

\* C2: once a cancel message was handled while job j is in flight, whatever
\* the suspended call does later, the only event job j still emits is the
\* terminal done with ok = false.
C2_CancelSilencesJob ==
  [][\A j \in Jobs :
       (j \in hit /\ readyState = "OPEN" /\ pc[j] \in {"gen", "engine"})
         => \A i \in Fresh(j) : jobLog'[j][i].event = "done" /\ ~jobLog'[j][i].ok]_vars

\* C3: after a canceled job has finished its cleanup and the connection is
\* still open, a valid prompt / modify message starts an authoritative job:
\* it marks the connection busy, emits status(received) and reaches the
\* generation call.
C3_NextJobAfterCancelRuns ==
  [][\A m \in Messages :
       (canceled /\ ~busy /\ readyState = "OPEN" /\ promptBranch(m) = "start" /\ OnSubmit(m))
         => /\ busy'
            /\ pc'[lastJobId'] = "gen"
            /\ \E i \in 1..Len(out') : out'[i].event = "status" /\ out'[i].stage = "received"]_vars

\* C4: once the done event of job j has been emitted, no routine of job j
\* (in particular no abandoned validateAndRepair invocation) emits a status,
\* result, result_partial or error event any more.
C4_NothingAfterDone ==
  [][\A j \in Jobs :
       Count(jobLog[j], "done") > 0
         => \A i \in Fresh(j) : jobLog'[j][i].event = "done"]_vars

\* the stage of the canonical ordering an event of a job belongs to
Tok(ev) ==
  CASE ev.event = "status" /\ ev.stage = "received" -> "received"
    [] ev.event = "status" /\ ev.stage \in {"translating", "modifying"} -> "generating"
    [] ev.event = "status" /\ ev.stage = "validating" -> "validating"
    [] ev.event = "status" /\ ev.stage = "repair" -> "repair"
    [] ev.event \in {"result", "result_partial", "error"} -> "terminal"
    [] ev.event = "done" -> "done"
    [] OTHER -> "other"
Follows(prev, t) ==
  CASE prev = "start" -> t \in {"received", "done"}
    [] prev = "received" -> t \in {"generating", "done"}
    [] prev = "generating" -> t \in {"validating", "terminal", "done"}
    [] prev = "validating" -> t \in {"repair", "terminal", "done"}
    [] prev = "repair" -> t \in {"validating", "terminal", "done"}
    [] prev = "terminal" -> t = "done"
    [] OTHER -> FALSE
Canonical(log) ==
  \A i \in 1..Len(log) :
     Follows(IF i = 1 THEN "start" ELSE Tok(log[i - 1]), Tok(log[i]))

\* C5: the events of a job are a prefix of received, translating / modifying,
\* validating, (repair, validating)*, at most one of result / result_partial /
\* error, followed by exactly one done.
C5_CanonicalOrder ==
  \A j \in Jobs :
     /\ Canonical(jobLog[j])
     /\ pc[j] = "returned" => Count(jobLog[j], "done") = 1

\* C6: at most one orchestrator routine is between its busy-mark and its
\* cleanup, and busy is true exactly then.
C6_OneJobInFlight ==
  /\ Cardinality(Running) <= 1
  /\ busy <=> Running # {}
C6_Witness ==
  /\ busy /\ pc[2] = "engine"
  /\ eng[1].pc \in {"repair", "sleep"}

\* C7: a prompt / modify message handled while busy is rejected with an
\* error event and changes nothing: lastJobId, busy, canceled, the stage and
\* every job routine stay as they are, and no job is started.
C7_SubmitWhileBusyRejected ==
  [][\A m \in Messages :
       (busy /\ OnSubmit(m))
         => /\ UNCHANGED <<busy, canceled, jobName, lastJobId, pc, kind, eng, jobLog>>
            /\ Count(out', "error") = 1
            /\ out'[1].event = "error"]_vars
C7_Witness ==
  /\ busy /\ pc[1] = "gen"
  /\ Len(out) = 1
  /\ out[1].event = "error"
  /\ out[1].message = "Job already in progress on this connection."

\* C8: a done event of job j carries ok = false if and only if canceled was
\* set during job j; without cancellation every done of the job has ok = true.
C8_DoneOkIffNotCanceled ==
  \A j \in Jobs : \A i \in 1..Len(jobLog[j]) :
     jobLog[j][i].event = "done" => (~jobLog[j][i].ok <=> j \in hit)

\* C9: with every external call settling or timing out, a dispatched job
\* reaches its cleanup, and the cleanup leaves busy false and the stage idle
\* and emits a done event.
C9_CleanupReached ==
  /\ \A j \in Jobs : [](pc[j] \in {"gen", "engine"} => <>(pc[j] = "returned"))
  /\ [][\A j \in Jobs :
          (pc[j] # "returned" /\ pc'[j] = "returned")
            => /\ ~busy' /\ jobName' = "idle"
               /\ Fresh(j) # {}
               /\ jobLog'[j][Len(jobLog'[j])].event = "done"]_vars
C9_Witness ==
  /\ pc[1] = "returned" /\ ~busy /\ jobName = "idle"
  /\ TimedOut(1)
  /\ eng[1].pc = "repair"
  /\ jobLog[1][Len(jobLog[1])].event = "done"

\* the engine of job j ran to its end with every candidate rejected and every
\* repair call returning an object, without cancellation or timeout
NeverValid(j) ==
  /\ pc[j] = "returned" /\ eng[j].pc = "returned"
  /\ ~canceled /\ ~TimedOut(j)
  /\ Count(jobLog[j], "result") = 0
  /\ \A i \in 1..Len(jobLog[j]) :
        /\ jobLog[j][i].event # "error"
        /\ jobLog[j][i].message # "Repair n failed"

OutCount(e) == Cardinality({i \in 1..Len(out') : out'[i].event = e})

\* C11: when validateAndRepair is entered by a job that is not stale with a
\* candidate the validator accepts, it returns success with that candidate
\* after one validation, one status(validating) and no repair call.
C11_ValidFirstCandidate ==
  [][\A j \in Jobs :
       (pc[j] = "gen" /\ ~isStale(j) /\ GenSettles(j, "valid"))
         => /\ nValidate'[j] = nValidate[j] + 1
            /\ nRepair'[j] = nRepair[j]
            /\ eng'[j] = [pc |-> "returned", attempt |-> 1, current |-> Obj(0, TRUE)]
            /\ Cardinality({i \in Fresh(j) : jobLog'[j][i].event = "status"}) = 1
            /\ \E i \in Fresh(j) :
                  /\ jobLog'[j][i].event = "status"
                  /\ jobLog'[j][i].stage = "validating" /\ jobLog'[j][i].n = 1
            /\ \E i \in Fresh(j) :
                  /\ jobLog'[j][i].event = "result"
                  /\ jobLog'[j][i].data = Obj(0, TRUE)
            /\ \A i \in Fresh(j) : jobLog'[j][i].event # "result_partial"]_vars
C11_Witness ==
  /\ eng[2] = [pc |-> "returned", attempt |-> 1, current |-> Obj(0, TRUE)]
  /\ nValidate[2] = 1 /\ nRepair[2] = 0
  /\ Count(jobLog[2], "result") = 1

\* a prompt job on a connection never canceled whose translate call returned
\* an object that the validator accepted at once
FirstTryPrompt(j) ==
  /\ kind[j] = "prompt" /\ pc[j] = "returned" /\ ~canceled
  /\ eng[j] = [pc |-> "returned", attempt |-> 1, current |-> Obj(0, TRUE)]
OnWire(evs) == [i \in 1..Len(evs) |-> [evs[i] EXCEPT !.wire = TRUE]]

\* C12: a prompt job whose first candidate validates, with no cancel and no
\* timeout, emits exactly status(received), status(translating),
\* status(validating, attempt 1), result(data = the candidate), done(ok = true).
C12_HappyPathSequence ==
  \A j \in Jobs :
     FirstTryPrompt(j) =>
       jobLog[j] = OnWire(<<EvStatus("received", "Prompt received.", 0),
                            EvStatus("translating", "Starting ...", 0),
                            EvStatus("validating", "Validating schema (attempt n)", 1),
                            EvResult(Obj(0, TRUE), FALSE),
                            EvDone(TRUE)>>)
C12_Witness ==
  /\ FirstTryPrompt(1) /\ Len(jobLog[1]) = 5
  /\ jobLog[1][5].event = "done" /\ jobLog[1][5].ok

\* C13: a prompt / modify message whose prompt is empty after trimming, or a
\* modify message without originalJson on a connection that is not busy, is
\* answered with one error followed by one done(ok = false), starts no job and
\* leaves lastJobId, busy and canceled as they are.
C13_MissingFieldRejected ==
  \A m \in Messages :
     (/\ readyState = "OPEN" /\ m.type \in {"prompt", "modify"}
      /\ \/ trim(m.prompt) = ""
         \/ m.type = "modify" /\ ~m.originalJson /\ ~busy)
       => /\ ENABLED OnSubmit(m)
          /\ ~ENABLED (/\ OnSubmit(m)
                       /\ ~(/\ Len(out') = 2
                            /\ out'[1].event = "error"
                            /\ out'[2].event = "done" /\ ~out'[2].ok
                            /\ UNCHANGED <<lastJobId, busy, canceled, pc, kind, eng,
                                           jobLog>>))
C13_Witness ==
  /\ Len(out) = 2
  /\ out[1].event = "error" /\ out[1].message = "Missing 'originalJson'."
  /\ out[2].event = "done" /\ ~out[2].ok
  /\ lastJobId = 1 /\ ~busy /\ pc[2] = "none"

PingMsg == [type |-> "ping", prompt |-> "-", originalJson |-> FALSE]

\* C14: on an open connection a ping message is handled in every state, is
\* answered with exactly one pong, and changes none of busy, canceled,
\* lastJobId, the stage and the job routines.
C14_PingAlwaysPong ==
  /\ [](readyState = "OPEN" => ENABLED OnPing(PingMsg))
  /\ [][\A m \in Messages :
          OnPing(m)
            => /\ Len(out') = 1 /\ out'[1].event = "pong"
               /\ UNCHANGED <<busy, canceled, lastJobId, jobName, pc, kind, eng,
                              jobLog>>]_vars
C14_Witness ==
  /\ busy /\ canceled /\ pc[1] = "engine"
  /\ Len(out) = 1 /\ out[1].event = "pong"

\* C15: a cancel message while busy sets canceled, emits one status of stage
\* idle and leaves busy true and lastJobId unchanged; a cancel message while
\* not busy emits one status and leaves canceled, busy and lastJobId
\* unchanged; busy turns false only in the step in which the running
\* orchestrator executes its cleanup.
C15_CancelFrame ==
  [][/\ \A m \in Messages :
          OnCancel(m)
            => /\ Len(out') = 1 /\ out'[1].event = "status" /\ out'[1].stage = "idle"
               /\ UNCHANGED <<busy, lastJobId, pc, kind, eng>>
               /\ IF busy THEN canceled' ELSE UNCHANGED canceled
     /\ (busy /\ ~busy')
          => \E j \in Jobs : pc[j] \in {"gen", "engine"} /\ pc'[j] = "returned"]_vars
C15_Witness ==
  /\ busy /\ canceled /\ readyState = "OPEN" /\ pc[1] = "gen"
  /\ Len(out) = 1 /\ out[1].event = "status"
  /\ out[1].message = "Job canceled by client."

\* C16: once the connection was closed (close or transport error), canceled
\* is true for good, the keepalive timer is released and cannot fire, nothing
\* a routine hands to send() is written to the socket, and a job running at
\* that time still reaches its cleanup: busy becomes false.
C16_TeardownQuiet ==
  /\ [](readyState = "CLOSED" => canceled /\ ~heartbeat /\ ~ENABLED Heartbeat)
  /\ [][readyState = "CLOSED"
          => /\ readyState' = "CLOSED"
             /\ \A i \in 1..Len(out') : ~out'[i].wire]_vars
  /\ [][\A h \in {"close", "error"} : OnTeardown(h) => canceled' /\ ~heartbeat']_vars
  /\ (readyState = "CLOSED") ~> ~busy
C16_Witness ==
  /\ readyState = "CLOSED" /\ canceled /\ ~busy
  /\ 1 \in hit /\ pc[1] = "returned"
  /\ \E i \in 1..Len(jobLog[1]) : jobLog[1][i].event = "error" /\ ~jobLog[1][i].wire

\* the routines that have not run to their end: orchestrators between their
\* busy-mark and their cleanup, validateAndRepair invocations before their
\* return (awaited or abandoned by the guard around them)
Routines ==
  {<<"job", j>> : j \in {i \in Jobs : pc[i] \in {"gen", "engine"}}}
    \cup {<<"engine", j>> : j \in {i \in Jobs : eng[i].pc \in {"repair", "sleep"}}}
Authoritative(r) == ~isStale(r[2])

C18_JobIdMonotone ==
  /\ [](\A m \in Messages :
          (/\ readyState = "OPEN" /\ m.type \in {"prompt", "modify"}
           /\ trim(m.prompt) # "" /\ ~busy
           /\ m.type = "modify" => m.originalJson)
            => ~ENABLED (/\ OnSubmit(m)
                         /\ ~(/\ lastJobId' = lastJobId + 1
                              /\ lastJobId' \in Jobs
                              /\ pc[lastJobId'] = "none"
                              /\ pc'[lastJobId'] # "none")))
  /\ [][/\ lastJobId' >= lastJobId
        /\ lastJobId' # lastJobId
             => \E m \in Messages :
                   /\ m.type \in {"prompt", "modify"}
                   /\ trim(m.prompt) # "" /\ ~busy
                   /\ m.type = "modify" => m.originalJson
                   /\ OnSubmit(m)]_vars
C18_Witness ==
  /\ lastJobId = 2 /\ pc[1] = "retired" /\ pc[2] = "gen"

FreshCount(j, e) == Cardinality({i \in Fresh(j) : jobLog'[j][i].event = e})

\* C21: when the translate / modify call of a job that is not stale throws,
\* is cut off by its guard or returns a structural failure, the job emits an
\* error, enters its cleanup without ever invoking validateAndRepair (no
\* validating / repair status, no result, no result_partial, no validation
\* and no repair call, then or later), and a result of the cut-off call that
\* arrives later changes nothing and emits nothing.
C21_GenerationFailure ==
  [][/\ \A j \in Jobs :
          (/\ pc[j] = "gen" /\ ~isStale(j)
           /\ \/ GenSettles(j, "throw")
              \/ GenSettles(j, "failure")
              \/ GenTimeout(j))
            => /\ FreshCount(j, "error") = 1
               /\ FreshCount(j, "status") = 0
               /\ FreshCount(j, "result") = 0
               /\ FreshCount(j, "result_partial") = 0
               /\ jobLog'[j][Len(jobLog'[j])].event = "done"
               /\ pc'[j] = "returned" /\ ~busy'
               /\ eng'[j].pc = "none"
               /\ nValidate'[j] = 0 /\ nRepair'[j] = 0
     /\ \A j \in Jobs :
          (pc[j] = "returned" /\ eng[j].pc = "none")
            => /\ eng'[j].pc = "none"
               /\ jobLog'[j] \in {jobLog[j], <<>>}
               /\ nValidate'[j] = 0 /\ nRepair'[j] = 0
     /\ \A c \in late :
          LateSettles(c)
            => /\ out' = <<>>
               /\ UNCHANGED <<state, pc, kind, eng, jobLog, nValidate, nRepair>>]_vars
C21_Witness ==
  /\ pc[1] = "returned" /\ eng[1].pc = "none" /\ kind[1] = "modify"
  /\ \E i \in 1..Len(jobLog[1]) :
        jobLog[1][i].message = "Modification failed: Operation timed out"
  /\ late = {} /\ out = <<>> /\ readyState = "OPEN"

\* C22: when the repair call of attempt k (1 or 2) returns a failure, the
\* engine emits exactly one result_partial, carrying the candidate that was
\* passed to that call, makes no further validation or repair call and
\* returns, and the job has emitted no result and no error.
C22_RepairFailurePartial ==
  [][\A j \in Jobs :
       (eng[j].pc = "repair" /\ pc[j] # "retired" /\ RepairSettles(j, "failure"))
         => /\ FreshCount(j, "result_partial") = 1
            /\ \A i \in Fresh(j) :
                  jobLog'[j][i].event = "result_partial"
                    => jobLog'[j][i].data = Obj(eng[j].attempt - 1, FALSE)
            /\ eng'[j].pc = "returned"
            /\ nValidate'[j] = nValidate[j] /\ nRepair'[j] = nRepair[j]
            /\ Count(jobLog'[j], "result") = 0
            /\ Count(jobLog'[j], "error") = 0]_vars

\* C23: when the repair call throws or is cut off by its guard, the engine
\* emits exactly one error and no result_partial, makes no further validation
\* or repair call and returns, and the job has emitted no result and exactly
\* one done when that step is over.
C23_RepairThrowError ==
  [][\A j \in Jobs :
       (/\ eng[j].pc = "repair" /\ pc[j] # "retired"
        /\ RepairSettles(j, "throw") \/ RepairTimeout(j))
         => /\ FreshCount(j, "error") = 1
            /\ FreshCount(j, "result_partial") = 0
            /\ eng'[j].pc = "returned"
            /\ nValidate'[j] = nValidate[j] /\ nRepair'[j] = nRepair[j]
            /\ Count(jobLog'[j], "result") = 0
            /\ Count(jobLog'[j], "done") = 1
            /\ jobLog'[j][Len(jobLog'[j])].event = "done"]_vars

\* C24: every result of a job carries an object the validator accepted: the
\* candidate of the validation that made the engine of that job return, and
\* a job never emits both a result and a result_partial.
C24_ResultOnlyIfValid ==
  \A j \in Jobs :
     /\ \A i \in 1..Len(jobLog[j]) :
           jobLog[j][i].event = "result"
             => /\ jobLog[j][i].data.valid
                /\ eng[j].pc = "returned"
                /\ jobLog[j][i].data = eng[j].current
                /\ jobLog[j][i].data.by = eng[j].attempt - 1
                /\ nValidate[j] = eng[j].attempt
                /\ i > 1 /\ jobLog[j][i - 1].event = "status"
                /\ jobLog[j][i - 1].stage = "validating"
                /\ jobLog[j][i - 1].n = eng[j].attempt
     /\ Count(jobLog[j], "result") <= 1
     /\ ~(Count(jobLog[j], "result") > 0 /\ Count(jobLog[j], "result_partial") > 0)
C24_Witness ==
  /\ Count(jobLog[1], "result") = 1
  /\ eng[1] = [pc |-> "returned", attempt |-> 3, current |-> Obj(2, TRUE)]
  /\ nRepair[1] = 2

\* all routines of job i have returned when the step is over
DeadAfter(i) ==
  pc'[i] \in {"returned", "retired"} /\ eng'[i].pc \in {"none", "returned"}

\* C25: in a step in which a staleness check of job j answers true (at job
\* start, after the generation call returned, at the top of a validation
\* attempt) the job emits nothing but at most its done event and makes no
\* validation or repair call, and all its routines have returned: it emits
\* nothing afterwards.
C25_StaleIsSilent ==
  [][/\ (canceled /\ ~busy /\ \E m \in Messages : promptBranch(m) = "start" /\ OnSubmit(m))
          => /\ Len(out') = 1 /\ out'[1].event = "done"
             /\ DeadAfter(lastJobId')
             /\ nValidate'[lastJobId'] = 0 /\ nRepair'[lastJobId'] = 0
     /\ \A j \in Jobs :
          (\/ /\ pc[j] = "gen" /\ isStale(j)
              /\ \E r \in {"valid", "invalid", "failure"} : GenSettles(j, r)
           \/ eng[j].pc = "sleep" /\ isStale(j) /\ SleepDone(j))
            => /\ Len(out') <= 1
               /\ \A i \in 1..Len(out') : out'[i].event = "done"
               /\ DeadAfter(j)
               /\ nValidate'[j] = nValidate[j] /\ nRepair'[j] = nRepair[j]
     /\ \A j \in Jobs :
          Dead(j) => /\ DeadAfter(j)
                     /\ jobLog'[j] \in {jobLog[j], <<>>}
                     /\ nValidate'[j] \in {nValidate[j], 0}
                     /\ nRepair'[j] \in {nRepair[j], 0}]_vars
C25_Witness ==
  /\ 1 \in hit /\ canceled /\ readyState = "OPEN"
  /\ pc[1] = "returned" /\ eng[1].pc = "returned" /\ eng[1].attempt = 2
  /\ nValidate[1] = 1 /\ nRepair[1] = 1
  /\ Count(jobLog[1], "done") = 1
  /\ jobLog[1][Len(jobLog[1])].event = "done"

\* what is left of the loop of a validateAndRepair invocation: two
\* resumptions (repair call, backoff sleep) per remaining attempt
Rank(e) ==
  IF e.pc \in {"repair", "sleep"}
  THEN 2 * (3 - e.attempt) + (IF e.pc = "repair" THEN 1 ELSE 0)
  ELSE 0

C27_IdleStageWhenNotBusy ==
  ~busy => jobName = "idle"

\* C28: while a job is in flight, a done event reaches the client only in the
\* step in which the orchestrator of that job runs its cleanup; a submission
\* rejected meanwhile emits no done.
C28_DoneOnlyFromCleanup ==
  [][\A i \in 1..Len(out') :
       (busy /\ out'[i].event = "done" /\ out'[i].wire)
         => \E j \in Running : pc'[j] = "returned"]_vars


====
